---------------------------- MODULE Spec2Model ----------------------------
(***************************************************************************)
(* The OpenVINO backend of the Triton inference server (src/src/openvino.cc) *)
(* as a state machine: the per-model ModelState (the "binder"), the          *)
(* construction of ModelInstanceState objects, and one execution call        *)
(* (ModelInstanceState::ProcessRequests).                                    *)
(*                                                                           *)
(* The specifications share the variables and the actions:                   *)
(*   Spec          execution calls on a constructed instance;                *)
(*   SpecCtor      instance constructions, one at a time;                    *)
(*   SpecConc      instance constructions on two threads, interleaved;       *)
(*   SpecParse     constructions over the values of the device options;      *)
(*   SpecBool      constructions over the values of the boolean parameters;  *)
(*   SpecExecConc  execution calls on two instances, interleaved;            *)
(*   SpecLife      constructions and execution calls, one at a time.         *)
(***************************************************************************)
EXTENDS Integers, Sequences, FiniteSets, TLC

\* ------------------------------------------------------------------ bounds
\* Largest max_batch_size of a model configuration.
MaxM == 2
\* Largest number of requests in one execution call.
MaxReq == 2
\* Largest leading dimension (shape[0]) of a request's first input.
MaxDim == 2
\* Largest number of instance constructions the host attempts.
MaxCtor == 3

\* ------------------------------------------------------------ the host side
Inst == {1, 2}
Devices == {"CPU"}
Kinds == {"KIND_CPU", "KIND_GPU"}
InputNames == {"X"}

\* ------------------------------------------------------------------ strings
\* A std::string is a sequence of characters; a character is a 1-char string.
Lower(c) ==
    CASE c = "Y" -> "y" [] c = "E" -> "e" [] c = "S" -> "s"
      [] c = "N" -> "n" [] c = "O" -> "o" [] c = "U" -> "u"
      [] c = "M" -> "m" [] c = "A" -> "a" [] c = "T" -> "t"
      [] OTHER -> c

ToLower(s) == [k \in 1..Len(s) |-> Lower(s[k])]

IsDigit(c) == c \in {"0", "1", "2", "3", "4", "5", "6", "7", "8", "9"}

IsNumber(s) == \A k \in 1..Len(s) : IsDigit(s[k])

S_yes == <<"y", "e", "s">>
S_no == <<"n", "o">>
S_numa == <<"n", "u", "m", "a">>
S_auto == <<"a", "u", "t", "o">>
S_YES == <<"Y", "E", "S">>
S_NO == <<"N", "O">>
S_NUMA == <<"N", "U", "M", "A">>
S_empty == <<>>

\* ------------------------------------------------------- model configuration
ParamKeys ==
    {"CPU_EXTENSION_PATH", "SKIP_OV_DYNAMIC_BATCHSIZE", "ENABLE_BATCH_PADDING",
     "RESHAPE_IO_LAYERS", "CPU_THREADS_NUM", "ENFORCE_BF16", "CPU_BIND_THREAD",
     "CPU_THROUGHPUT_STREAMS"}

NoValues == [k \in ParamKeys |-> S_empty]

\* ReadParameter: the string value of the key, or the empty string it was
\* initialised with when the key is absent.
ReadParameter(params, mkey) == params[mkey]

\* The parameter blocks a model configuration may carry.
PaddingValues == {S_no, S_YES}
ExtensionValues == {S_empty, <<"e">>}
ThreadsValues == {S_empty, <<"4">>, <<"x">>}

ExecConfigs ==
    {[max_batch_size |-> m, has_parameters |-> TRUE,
      parameters |-> [NoValues EXCEPT !["ENABLE_BATCH_PADDING"] = p]] :
        m \in 0..MaxM, p \in PaddingValues}

\* A key that is none of those the backend reads, and a parameter block with
\* it added.
UnknownKey == "GPU_THROUGHPUT_STREAMS"

WithUnknownKey(params) == (UnknownKey :> <<"2">>) @@ params

HasUnknownKey(params) == \E k \in DOMAIN params : k \notin ParamKeys

CtorConfigs ==
    {[max_batch_size |-> MaxM, has_parameters |-> TRUE,
      parameters |->
          LET known == [NoValues EXCEPT !["ENABLE_BATCH_PADDING"] = p,
                                        !["CPU_EXTENSION_PATH"] = e,
                                        !["CPU_THREADS_NUM"] = t]
          IN  IF u THEN WithUnknownKey(known) ELSE known] :
        p \in PaddingValues, e \in ExtensionValues, t \in ThreadsValues,
        u \in BOOLEAN}
    \cup {[max_batch_size |-> MaxM, has_parameters |-> FALSE,
           parameters |-> NoValues]}

\* --------------------------------------------------------------- ModelState
\* A map is a function whose domain holds the keys present.
EmptyMap == <<>>

Put(map, key, value) == (key :> value) @@ map

\* ModelState::ModelState: nothing read, nothing loaded, every flag false.
\* network_ and a compiled graph are handles: 0 is the null / default-constructed
\* one, n > 0 the result of the n-th read_model / compile_model call.
NewModelState ==
    [network_read_ |-> FALSE, network_ |-> 0,
     executable_network_ |-> EmptyMap, config_ |-> EmptyMap,
     name_node_map |-> EmptyMap,
     skip_dynamic_batchsize_ |-> FALSE, enable_padding_ |-> FALSE,
     reshape_io_layers_ |-> FALSE]

\* ov::Core of the model: what was applied to it and how often it was called.
NewCore ==
    [extensions |-> 0, properties |-> EmptyMap,
     read_model_calls |-> 0, read_model_ok |-> 0,
     compile_model_calls |-> 0, compile_model_ok |-> 0,
     infer_requests |-> 0]

NetworkNotRead(b) == ~b.network_read_

\* A NetworkNotLoaded that never finds the device loaded.
NeverLoaded(b, device) == TRUE

NetworkNotLoaded(b, device) == device \notin DOMAIN b.executable_network_

\* A ParseBoolParameter that compares the value as it was written.
ParseBoolParameterCased(mkey, params, setting) ==
    IF ReadParameter(params, mkey) = S_yes THEN TRUE ELSE setting

\* ModelState::ParseBoolParameter: the new value of *setting.
ParseBoolParameter(mkey, params, setting) ==
    LET value == ToLower(ReadParameter(params, mkey))
    IN  IF value = S_yes THEN TRUE ELSE setting

\* ModelState::LoadCpuExtensions: whether core.add_extension is called.
LoadsCpuExtension(params) == ReadParameter(params, "CPU_EXTENSION_PATH") # S_empty

\* ModelState::ParseParameters(): the three flags after parsing.
ParseFlags(b, params) ==
    [b EXCEPT
       !.skip_dynamic_batchsize_ =
           ParseBoolParameter("SKIP_OV_DYNAMIC_BATCHSIZE", params, @),
       !.enable_padding_ = ParseBoolParameter("ENABLE_BATCH_PADDING", params, @),
       !.reshape_io_layers_ = ParseBoolParameter("RESHAPE_IO_LAYERS", params, @)]

\* A ParseParameterHelper that compares the value as it was written.
ParseParameterHelperCased(mkey, value) ==
    LET Bad == [err |-> "INVALID_ARG", ov_key |-> mkey, value |-> value]
        Ok(v) == [err |-> "none", ov_key |-> mkey, value |-> v]
    IN  CASE mkey = "CPU_THREADS_NUM" ->
               IF ~IsNumber(value) THEN Bad ELSE Ok(value)
          [] mkey = "ENFORCE_BF16" ->
               IF value = S_yes THEN Ok(S_YES)
               ELSE IF value = S_no THEN Ok(S_NO) ELSE Bad
          [] mkey = "CPU_BIND_THREAD" ->
               IF value = S_yes THEN Ok(S_YES)
               ELSE IF value = S_numa THEN Ok(S_NUMA)
               ELSE IF value = S_no THEN Ok(S_NO) ELSE Bad
          [] mkey = "CPU_THROUGHPUT_STREAMS" ->
               IF value = S_auto THEN Ok(<<"CPU_THROUGHPUT_AUTO">>)
               ELSE IF value = S_numa THEN Ok(<<"CPU_THROUGHPUT_NUMA">>)
               ELSE IF ~IsNumber(value) THEN Bad ELSE Ok(value)
          [] OTHER -> [err |-> "UNSUPPORTED_PARAMETER", ov_key |-> mkey,
                       value |-> value]

\* ModelState::ParseParameterHelper: [err, ov_key, value].
ParseParameterHelper(mkey, value0) ==
    LET value == ToLower(value0)
        Bad == [err |-> "INVALID_ARG", ov_key |-> mkey, value |-> value]
        Ok(v) == [err |-> "none", ov_key |-> mkey, value |-> v]
    IN  CASE mkey = "CPU_THREADS_NUM" ->
               IF ~IsNumber(value) THEN Bad ELSE Ok(value)
          [] mkey = "ENFORCE_BF16" ->
               IF value = S_yes THEN Ok(S_YES)
               ELSE IF value = S_no THEN Ok(S_NO) ELSE Bad
          [] mkey = "CPU_BIND_THREAD" ->
               IF value = S_yes THEN Ok(S_YES)
               ELSE IF value = S_numa THEN Ok(S_NUMA)
               ELSE IF value = S_no THEN Ok(S_NO) ELSE Bad
          [] mkey = "CPU_THROUGHPUT_STREAMS" ->
               IF value = S_auto THEN Ok(<<"CPU_THROUGHPUT_AUTO">>)
               ELSE IF value = S_numa THEN Ok(<<"CPU_THROUGHPUT_NUMA">>)
               ELSE IF ~IsNumber(value) THEN Bad ELSE Ok(value)
          [] OTHER -> [err |-> "UNSUPPORTED_PARAMETER", ov_key |-> mkey,
                       value |-> value]

\* ModelState::ParseParameter: [err, device_config].
ParseParameter(mkey, params, device_config) ==
    LET value == ReadParameter(params, mkey)
    IN  IF value # S_empty
        THEN LET h == ParseParameterHelper(mkey, value)
             IN  IF h.err # "none"
                 THEN [err |-> h.err, device_config |-> device_config]
                 ELSE [err |-> "none",
                       device_config |-> Put(device_config, h.ov_key, h.value)]
        ELSE [err |-> "none", device_config |-> device_config]

DeviceKeys ==
    <<"CPU_THREADS_NUM", "ENFORCE_BF16", "CPU_BIND_THREAD",
      "CPU_THROUGHPUT_STREAMS">>

\* The RETURN_IF_ERROR chain of ParseParameters(device) from key k on.
RECURSIVE ParseDeviceKeys(_, _, _)
ParseDeviceKeys(k, params, device_config) ==
    IF k > Len(DeviceKeys)
    THEN [err |-> "none", device_config |-> device_config]
    ELSE LET r == ParseParameter(DeviceKeys[k], params, device_config)
         IN  IF r.err # "none" THEN r
             ELSE ParseDeviceKeys(k + 1, params, r.device_config)

\* ModelState::ParseParameters(device): [err, config_].
ParseParametersDevice(b, config, device) ==
    IF config.has_parameters /\ device = "CPU"
    THEN LET r == ParseDeviceKeys(1, config.parameters, EmptyMap)
         IN  [err |-> r.err, config_ |-> Put(b.config_, device, r.device_config)]
    ELSE [err |-> "none", config_ |-> b.config_]

\* A ReadNetwork that stores the graph and leaves network_read_ alone.
ReadNetworkForgets(b, g) == [b EXCEPT !.network_ = g]

\* ReadNetwork, after core.read_model returned graph handle g.
ReadNetworkDone(b, g) == [b EXCEPT !.network_ = g, !.network_read_ = TRUE]

\* LoadNetwork, after core.compile_model returned compiled graph handle c for
\* the device: the graph is stored and every input of it is entered in
\* name_node_map under its name.
LoadNetworkDone(b, device, c) ==
    [b EXCEPT
       !.executable_network_ = Put(@, device, c),
       !.name_node_map = [n \in InputNames \cup DOMAIN @ |->
                            IF n \in InputNames THEN c ELSE @[n]]]

\* A failed compilation that drops the device's entry.
LoadNetworkForgetsDevice(b, device, lhs_first) ==
    [b EXCEPT !.executable_network_ =
                  [d \in DOMAIN @ \ {device} |-> @[d]]]

\* LoadNetwork, when core.compile_model threw. executable_network_[device] is
\* the left operand of the assignment: a build that evaluates it before the
\* right operand (allowed before C++17) has inserted a default-constructed
\* entry (handle 0) by the time of the throw.
LoadNetworkThrown(b, device, lhs_first) ==
    IF lhs_first /\ device \notin DOMAIN b.executable_network_
    THEN [b EXCEPT !.executable_network_ = Put(@, device, 0)]
    ELSE b

\* ModelState::SetNameNodeMap: the copy the instance receives.
SetNameNodeMap(b) == b.name_node_map

\* -------------------------------------------------------------- the state
VARIABLES
    config,         \* the model configuration (max_batch_size, parameters)
    binder,         \* the ModelState shared by the instances of the model
    core,           \* the ov::Core of the ModelState
    inst,           \* per host instance handle: the ModelInstanceState and the
                    \* position of the thread working on it
    call,           \* per instance: the execution call in flight or last ended
    ctor_attempts   \* instance constructions begun so far

vars == <<config, binder, core, inst, call, ctor_attempts>>

\* No ModelInstanceState is attached to the host's instance handle; `kind` is
\* the kind of the instance group the handle was last given (Kind()).
NoInstance ==
    [pc |-> "idle", attached |-> FALSE, init_err |-> "none",
     kind |-> "KIND_CPU",
     device_ |-> "CPU", infer_request_ |-> 0, name_node_map_ |-> EmptyMap,
     batch_pad_size_ |-> 0]


Quiescent(i) == inst[i].pc \in {"idle", "ready"}

\* A failure that records the error and lets the constructor go on.
CtorFailGoesOn(i, err) == inst' = [inst EXCEPT ![i].init_err = err]

\* THROW_IF_BACKEND_INSTANCE_ERROR, caught by ModelInstanceState::Create:
\* TRITONBACKEND_ModelInstanceInitialize returns the error and attaches nothing.
CtorFail(i, err) ==
    inst' = [inst EXCEPT ![i] = [NoInstance EXCEPT !.init_err = err]]

CtorGoto(i, pc) == inst' = [inst EXCEPT ![i].pc = pc]

\* A construction without the kind check.
CtorBeginAnyKind(i, kind, serialized) ==
    /\ inst[i].pc = "idle"
    /\ ~inst[i].attached
    /\ ctor_attempts < MaxCtor
    /\ serialized => \A j \in Inst \ {i} : Quiescent(j)
    /\ ctor_attempts' = ctor_attempts + 1
    /\ inst' = [inst EXCEPT ![i] =
             [NoInstance EXCEPT !.kind = kind,
                                !.pc = IF NetworkNotRead(binder)
                                       THEN "ctor_parse"
                                       ELSE "ctor_check_loaded"]]
    /\ UNCHANGED <<config, binder, core, call>>

\* ------------------------------------------------- instance construction
\* TRITONBACKEND_ModelInstanceInitialize up to the first test of the
\* constructor: the kind check and NetworkNotRead(). With `serialized` the host
\* begins a construction only when no other one is under way.
CtorBegin(i, kind, serialized) ==
    /\ inst[i].pc = "idle"
    /\ ~inst[i].attached
    /\ ctor_attempts < MaxCtor
    /\ serialized => \A j \in Inst \ {i} : Quiescent(j)
    /\ ctor_attempts' = ctor_attempts + 1
    /\ IF kind # "KIND_CPU"
       THEN inst' = [inst EXCEPT ![i] =
                [NoInstance EXCEPT !.kind = kind,
                                   !.init_err = "INVALID_ARG kind"]]
       ELSE inst' = [inst EXCEPT ![i] =
                [NoInstance EXCEPT !.kind = kind,
                                   !.pc = IF NetworkNotRead(binder)
                                          THEN "ctor_parse"
                                          ELSE "ctor_check_loaded"]]
    /\ UNCHANGED <<config, binder, core, call>>

\* model_state_->ParseParameters(): LoadCpuExtensions, then the three flags.
CtorParseParameters(i, ext_ok) ==
    /\ inst[i].pc = "ctor_parse"
    /\ IF config.has_parameters
       THEN IF LoadsCpuExtension(config.parameters) /\ ~ext_ok
            THEN /\ CtorFail(i, "INTERNAL loading custom CPU extensions")
                 /\ UNCHANGED <<binder, core>>
            ELSE /\ core' = [core EXCEPT !.extensions =
                       IF LoadsCpuExtension(config.parameters) THEN @ + 1 ELSE @]
                 /\ binder' = ParseFlags(binder, config.parameters)
                 /\ CtorGoto(i, "ctor_read_guard")
       ELSE /\ CtorGoto(i, "ctor_read_guard")
            /\ UNCHANGED <<binder, core>>
    /\ UNCHANGED <<config, call, ctor_attempts>>

\* ModelState::ReadNetwork, its guard.
CtorReadGuard(i) ==
    /\ inst[i].pc = "ctor_read_guard"
    /\ IF NetworkNotRead(binder)
       THEN CtorGoto(i, "ctor_read")
       ELSE CtorFail(i, "INTERNAL read more than once")
    /\ UNCHANGED <<config, binder, core, call, ctor_attempts>>

\* A ReadNetwork that sets the read flag whether or not the read succeeded.
CtorReadNetworkSetsFlag(i, exists, read_ok) ==
    /\ inst[i].pc = "ctor_read"
    /\ binder' = ReadNetworkDone(binder, core.read_model_calls + 1)
    /\ IF ~exists
       THEN /\ CtorFail(i, "UNAVAILABLE unable to find model")
            /\ UNCHANGED core
       ELSE IF ~read_ok
       THEN /\ CtorFail(i, "INTERNAL reading network")
            /\ core' = [core EXCEPT !.read_model_calls = @ + 1]
       ELSE /\ core' = [core EXCEPT !.read_model_calls = @ + 1,
                                    !.read_model_ok = @ + 1]
            /\ CtorGoto(i, "ctor_check_loaded")
    /\ UNCHANGED <<config, call, ctor_attempts>>

\* ModelState::ReadNetwork past its guard: FileExists, core.read_model, the
\* flag; then ValidateConfigureNetwork (which does nothing) and the
\* constructor's NetworkNotLoaded test.
CtorReadNetwork(i, exists, read_ok) ==
    /\ inst[i].pc = "ctor_read"
    /\ IF ~exists
       THEN /\ CtorFail(i, "UNAVAILABLE unable to find model")
            /\ UNCHANGED <<binder, core>>
       ELSE IF ~read_ok
       THEN /\ CtorFail(i, "INTERNAL reading network")
            /\ core' = [core EXCEPT !.read_model_calls = @ + 1]
            /\ UNCHANGED binder
       ELSE /\ core' = [core EXCEPT !.read_model_calls = @ + 1,
                                    !.read_model_ok = @ + 1]
            /\ binder' = ReadNetworkDone(binder, core.read_model_calls + 1)
            /\ CtorGoto(i, "ctor_check_loaded")
    /\ UNCHANGED <<config, call, ctor_attempts>>

\* The constructor's test of NetworkNotLoaded(device_).
CtorCheckLoaded(i) ==
    /\ inst[i].pc = "ctor_check_loaded"
    /\ IF NetworkNotLoaded(binder, inst[i].device_)
       THEN CtorGoto(i, "ctor_parse_device")
       ELSE CtorGoto(i, "ctor_infer_request")
    /\ UNCHANGED <<config, binder, core, call, ctor_attempts>>

\* A ParseParameters(device) whose error the constructor ignores.
CtorParseDeviceGoesOn(i) ==
    /\ inst[i].pc = "ctor_parse_device"
    /\ LET r == ParseParametersDevice(binder, config, inst[i].device_)
       IN  /\ binder' = [binder EXCEPT !.config_ = r.config_]
           /\ CtorGoto(i, "ctor_configure")
    /\ UNCHANGED <<config, core, call, ctor_attempts>>

\* model_state_->ParseParameters(device_).
CtorParseDevice(i) ==
    /\ inst[i].pc = "ctor_parse_device"
    /\ LET r == ParseParametersDevice(binder, config, inst[i].device_)
       IN  /\ binder' = [binder EXCEPT !.config_ = r.config_]
           /\ IF r.err # "none"
              THEN CtorFail(i, r.err)
              ELSE CtorGoto(i, "ctor_configure")
    /\ UNCHANGED <<config, core, call, ctor_attempts>>

\* ModelState::ConfigureInferenceEngine: core.set_property per device of
\* config_; a throw of the engine becomes an error.
CtorConfigure(i, set_ok) ==
    /\ inst[i].pc = "ctor_configure"
    /\ IF DOMAIN binder.config_ # {} /\ ~set_ok
       THEN /\ CtorFail(i, "INTERNAL configuring inference engine")
            /\ UNCHANGED core
       ELSE /\ core' = [core EXCEPT !.properties =
                            [d \in DOMAIN binder.config_ \cup DOMAIN @ |->
                               IF d \in DOMAIN binder.config_
                               THEN binder.config_[d] ELSE @[d]]]
            /\ CtorGoto(i, "ctor_load_guard")
    /\ UNCHANGED <<config, binder, call, ctor_attempts>>

\* A LoadNetwork without its guard.
CtorLoadGuardCompiles(i) ==
    /\ inst[i].pc = "ctor_load_guard"
    /\ CtorGoto(i, "ctor_compile")
    /\ UNCHANGED <<config, binder, core, call, ctor_attempts>>

\* ModelState::LoadNetwork, its guard.
CtorLoadGuard(i) ==
    /\ inst[i].pc = "ctor_load_guard"
    /\ IF NetworkNotLoaded(binder, inst[i].device_)
       THEN CtorGoto(i, "ctor_compile")
       ELSE CtorFail(i, "INTERNAL load more than once")
    /\ UNCHANGED <<config, binder, core, call, ctor_attempts>>

\* ModelState::LoadNetwork past its guard: core.compile_model and the
\* name -> node map.
CtorCompile(i, compile_ok, lhs_first) ==
    /\ inst[i].pc = "ctor_compile"
    /\ IF compile_ok
       THEN /\ core' = [core EXCEPT !.compile_model_calls = @ + 1,
                                    !.compile_model_ok = @ + 1]
            /\ binder' = LoadNetworkDone(binder, inst[i].device_,
                                         core.compile_model_calls + 1)
            /\ CtorGoto(i, "ctor_infer_request")
       ELSE /\ core' = [core EXCEPT !.compile_model_calls = @ + 1]
            /\ binder' = LoadNetworkThrown(binder, inst[i].device_, lhs_first)
            /\ CtorFail(i, "INTERNAL loading network")
    /\ UNCHANGED <<config, call, ctor_attempts>>

\* ModelState::CreateInferRequest: a default-constructed compiled graph has no
\* implementation and create_infer_request throws on it.
CtorCreateInferRequest(i, create_ok) ==
    /\ inst[i].pc = "ctor_infer_request"
    /\ IF binder.executable_network_[inst[i].device_] = 0 \/ ~create_ok
       THEN /\ CtorFail(i, "INTERNAL creating infer request object")
            /\ UNCHANGED core
       ELSE /\ core' = [core EXCEPT !.infer_requests = @ + 1]
            /\ inst' = [inst EXCEPT ![i].infer_request_ = core.infer_requests + 1,
                                    ![i].pc = "ctor_set_map"]
    /\ UNCHANGED <<config, binder, call, ctor_attempts>>

\* model_state_->SetNameNodeMap(&name_node_map_); the constructor returns and
\* TRITONBACKEND_ModelInstanceSetState attaches the instance.
CtorSetNameNodeMap(i) ==
    /\ inst[i].pc = "ctor_set_map"
    /\ inst' = [inst EXCEPT ![i].name_node_map_ = SetNameNodeMap(binder),
                            ![i].attached = TRUE,
                            ![i].pc = "ready"]
    /\ UNCHANGED <<config, binder, core, call, ctor_attempts>>

CtorStep(i) ==
    \/ \E ext_ok \in BOOLEAN : CtorParseParameters(i, ext_ok)
    \/ CtorReadGuard(i)
    \/ \E exists \in BOOLEAN, read_ok \in BOOLEAN : CtorReadNetwork(i, exists, read_ok)
    \/ CtorCheckLoaded(i)
    \/ CtorParseDevice(i)
    \/ \E set_ok \in BOOLEAN : CtorConfigure(i, set_ok)
    \/ CtorLoadGuard(i)
    \/ \E compile_ok \in BOOLEAN, lhs_first \in BOOLEAN :
           CtorCompile(i, compile_ok, lhs_first)
    \/ \E create_ok \in BOOLEAN : CtorCreateInferRequest(i, create_ok)
    \/ CtorSetNameNodeMap(i)

\* ------------------------------------------------------ an execution call
\* A request as ProcessRequests sees it: a null pointer, or a request whose
\* first input either cannot be fetched (TRITONBACKEND_RequestInputByIndex
\* returns an error) or has leading dimension `lead` (shape[0]).
NullRequest == [null |-> TRUE, lead |-> 0, input_err |-> FALSE]

RequestValues ==
    {NullRequest}
    \cup {[null |-> FALSE, lead |-> d, input_err |-> FALSE] : d \in 0..MaxDim}
    \cup {[null |-> FALSE, lead |-> 0, input_err |-> TRUE]}

RequestArrays == UNION {[1..n -> RequestValues] : n \in 0..MaxReq}

E_NULL == "INTERNAL null request given to openVINO backend"
E_INPUT == "RequestInputByIndex error"
E_MISMATCH == "INTERNAL expected requests with batch size"
E_EXCEEDED == "INTERNAL batch size, max allowed is"
E_GPU == "UNSUPPORTED failed to get input buffer in CPU memory"
E_BYTES == "UNSUPPORTED expected bytes of data in input buffer"
E_INFER == "INTERNAL running inference"
E_OUTPUT == "INTERNAL expected the batch size of openvino model output"

\* sizeof(float), the element type the gathered input buffer is viewed as.
FloatBytes == 4
ElemSizes == {2, FloatBytes}
MemoryTypes == {"CPU", "CPU_PINNED", "GPU"}

\* A tensor: leading dimension, elements per row, bytes per element.
Tensor(lead, row, elem) == [lead |-> lead, row |-> row, elem |-> elem]
NoTensor == Tensor(0, 0, 0)
Shape(t) == <<t.lead, t.row>>
ByteSize(t) == t.elem * t.lead * t.row

EngineLeads == 0..(IF MaxM > MaxDim THEN MaxM ELSE MaxDim)
EngineTensors ==
    {Tensor(l, r, e) : l \in EngineLeads, r \in {1, 2}, e \in ElemSizes}

\* The locals of ProcessRequests with what the call has done to the host so
\* far: per request the responses sent (by error, "ok" for a success), the
\* statistics reported and the number of releases. A size_t is kept as the
\* integer nearest 0 that is congruent to it modulo 2^64: a negative number x
\* stands for 2^64 + x, and +, - and = on these are those of size_t.
NewCall(reqs) ==
    [at |-> "null_check",
     requests |-> reqs,
     responses |-> [r \in DOMAIN reqs |-> FALSE],
     created |-> [r \in DOMAIN reqs |-> FALSE],
     sent |-> [r \in DOMAIN reqs |-> <<>>],
     stats |-> [r \in DOMAIN reqs |-> <<>>],
     released |-> [r \in DOMAIN reqs |-> 0],
     outputs |-> [r \in DOMAIN reqs |-> <<>>],
     total_batch_size |-> 0,
     all_response_failed |-> FALSE,
     err |-> "none",
     pad_writes |-> 0,
     src |-> NoTensor, dst |-> NoTensor, copied |-> 0,
     infer_calls |-> 0, infer_batch |-> 0, infer_pad |-> 0,
     output_reads |-> 0, output_lead |-> 0,
     batch_stats |-> <<>>,
     r |-> 1]

\* No call was made on the instance yet.
NoCall == [NewCall(<<>>) EXCEPT !.at = "none"]

\* A null test that looks at the first request only.
HasNullFirst(reqs) == Len(reqs) >= 1 /\ reqs[1].null

HasNull(reqs) == \E r \in DOMAIN reqs : reqs[r].null

\* A RESPOND_ALL_AND_SET_TRUE_IF_ERROR that answers the first response only.
RespondFirst(c, err) ==
    [c EXCEPT
       !.all_response_failed = TRUE,
       !.err = IF @ = "none" THEN err ELSE @,
       !.sent = [r \in DOMAIN c.requests |->
                   IF c.responses[r] /\ r = 1 THEN Append(@[r], err) ELSE @[r]],
       !.responses = [r \in DOMAIN c.requests |-> c.responses[r] /\ r # 1]]

\* RESPOND_ALL_AND_SET_TRUE_IF_ERROR with a non-null error: the flag is set,
\* every response still held is sent with the error and its pointer nulled.
RespondAll(c, err) ==
    [c EXCEPT
       !.all_response_failed = TRUE,
       !.err = IF @ = "none" THEN err ELSE @,
       !.sent = [r \in DOMAIN c.requests |->
                   IF c.responses[r] THEN Append(@[r], err) ELSE @[r]],
       !.responses = [r \in DOMAIN c.requests |-> FALSE]]

\* RequestsRespondWithError(requests, request_count, err): per request a
\* response is created and sent with the error, and the request is released;
\* neither can be done for a null request.
RequestsRespondWithError(c, err) ==
    [c EXCEPT
       !.err = err,
       !.sent = [r \in DOMAIN c.requests |->
                   IF c.requests[r].null THEN @[r] ELSE Append(@[r], err)],
       !.released = [r \in DOMAIN c.requests |->
                       IF c.requests[r].null THEN @[r] ELSE @[r] + 1]]

\* A batching test that takes max_batch_size 0 for a batching model.
BatchingFromZero(max_batch_size) == max_batch_size >= 0

\* `max_batch_size > 0`: the model batches.
Batching(max_batch_size) == max_batch_size > 0

\* A full-batch test that only objects to a short batch.
ShortBatch(total_batch_size, max_batch_size) ==
    total_batch_size < max_batch_size

\* `total_batch_size != (size_t)max_batch_size`
NotFullBatch(total_batch_size, max_batch_size) ==
    total_batch_size # max_batch_size

\* The pad size with its operands exchanged.
PadSizeSwapped(max_batch_size, total_batch_size) ==
    total_batch_size - max_batch_size

\* `batch_pad_size_ = max_batch_size - total_batch_size`
PadSize(max_batch_size, total_batch_size) == max_batch_size - total_batch_size

\* A max batch size check that never fires.
NeverExceedsMax(total_batch_size, max_batch_size) == FALSE

\* Variant of the maximum check without the comparison against 1.
ExceedsMaxBatchingOnly(total_batch_size, max_batch_size) ==
    max_batch_size > 0 /\ total_batch_size > max_batch_size

\* `(total_batch_size != 1) && (total_batch_size > (size_t)max_batch_size)`
ExceedsMax(total_batch_size, max_batch_size) ==
    total_batch_size # 1 /\ total_batch_size > max_batch_size

\* One iteration of the aggregation loop, for request `req`, on the call's
\* locals c and the instance's batch_pad_size_.
AggregateOne(st, req, max_batch_size, enable_padding) ==
    IF Batching(max_batch_size)
    THEN LET c1 == IF req.input_err
                   THEN RespondAll(st.c, E_INPUT)
                   ELSE [st.c EXCEPT !.total_batch_size = @ + req.lead]
         IN  IF ~c1.all_response_failed
                /\ NotFullBatch(c1.total_batch_size, max_batch_size)
             THEN IF enable_padding
                  THEN [c |-> [c1 EXCEPT !.pad_writes = @ + 1],
                        pad |-> PadSize(max_batch_size, c1.total_batch_size)]
                  ELSE [c |-> RespondAll(c1, E_MISMATCH), pad |-> st.pad]
             ELSE [c |-> c1, pad |-> st.pad]
    ELSE [c |-> [st.c EXCEPT !.total_batch_size = @ + 1], pad |-> st.pad]

\* The aggregation loop from request k on.
RECURSIVE Aggregate(_, _, _, _)
Aggregate(st, k, max_batch_size, enable_padding) ==
    IF k > Len(st.c.requests) THEN st
    ELSE Aggregate(
             AggregateOne(st, st.c.requests[k], max_batch_size, enable_padding),
             k + 1, max_batch_size, enable_padding)

\* An empty-batch test that never finds the batch empty.
NeverNoPayload(total_batch_size) == FALSE

\* `if (total_batch_size == 0) return;`
NoPayload(total_batch_size) == total_batch_size = 0

\* SetInputTensors, the batched source view of the input: the shape of the
\* first request's input with, for a batching model, total_batch_size in
\* front.
BatchnTensor(c, max_batch_size) ==
    Tensor(IF max_batch_size # 0 THEN c.total_batch_size
           ELSE c.requests[1].lead, 1, FloatBytes)

\* SetInputTensors, the test before the memcpy.
TensorsDiffer(src, dst) ==
    Shape(src) # Shape(dst) \/ ByteSize(src) # ByteSize(dst)

\* A SetInputTensors that copies into the engine's tensor before it looks at
\* the memory type and the byte length of the buffer.
SetInputTensorsChecksLast(c, max_batch_size, memory_type, buffer_byte_size, dst) ==
    LET src == BatchnTensor(c, max_batch_size)
    IN  IF TensorsDiffer(src, dst)
        THEN [err |-> "throw", src |-> src, dst |-> dst, copied |-> 0]
        ELSE IF memory_type = "GPU"
        THEN [err |-> E_GPU, src |-> src, dst |-> dst, copied |-> ByteSize(src)]
        ELSE IF ByteSize(src) # buffer_byte_size
        THEN [err |-> E_BYTES, src |-> src, dst |-> dst,
              copied |-> ByteSize(src)]
        ELSE [err |-> "none", src |-> src, dst |-> dst, copied |-> ByteSize(src)]

\* SetInputTensors for the input of the model: the error it returns ("none"
\* for success, "throw" for the std::runtime_error) and the bytes written to
\* the engine's tensor.
SetInputTensors(c, max_batch_size, memory_type, buffer_byte_size, dst) ==
    LET src == BatchnTensor(c, max_batch_size)
    IN  IF memory_type = "GPU"
        THEN [err |-> E_GPU, src |-> NoTensor, dst |-> NoTensor, copied |-> 0]
        ELSE IF ByteSize(src) # buffer_byte_size
        THEN [err |-> E_BYTES, src |-> NoTensor, dst |-> NoTensor, copied |-> 0]
        ELSE IF TensorsDiffer(src, dst)
        THEN [err |-> "throw", src |-> src, dst |-> dst, copied |-> 0]
        ELSE [err |-> "none", src |-> src, dst |-> dst, copied |-> ByteSize(src)]

\* ModelInstanceState::ValidateOutputBatchSize: the error it returns.
ValidateOutputBatchSize(max_batch_size, batch_pad_size_, output_lead) ==
    IF max_batch_size = 0 THEN "none"
    ELSE IF output_lead # max_batch_size
            /\ output_lead # max_batch_size - batch_pad_size_
         THEN E_OUTPUT
         ELSE "none"

\* ReadOutputTensors: the checks made on an engine output before it is handed
\* to the responder.
OutputError(max_batch_size, batch_pad_size_, output_lead) == "none"

CallGoto(i, c, at) == call' = [call EXCEPT ![i] = [c EXCEPT !.at = at]]

\* A return that leaves the instance as if it had never been constructed.
CallReturnResets(i, c) ==
    /\ call' = [call EXCEPT ![i] = [c EXCEPT !.at = "returned"]]
    /\ inst' = [inst EXCEPT ![i] = [NoInstance EXCEPT !.pc = "ready"]]

\* ProcessRequests returns, and TRITONBACKEND_ModelInstanceExecute after it.
CallReturn(i, c) ==
    /\ call' = [call EXCEPT ![i] = [c EXCEPT !.at = "returned"]]
    /\ inst' = [inst EXCEPT ![i].pc = "ready"]

\* TRITONBACKEND_ModelInstanceExecute is entered with `reqs`.
ExecBegin(i, reqs, serialized) ==
    /\ inst[i].pc = "ready"
    /\ call[i].at = "none"
    /\ serialized => \A j \in Inst \ {i} : Quiescent(j)
    /\ inst' = [inst EXCEPT ![i].pc = "executing"]
    /\ call' = [call EXCEPT ![i] = NewCall(reqs)]
    /\ UNCHANGED <<config, binder, core, ctor_attempts>>

\* The null-request loop.
ExecNullCheck(i) ==
    /\ inst[i].pc = "executing"
    /\ call[i].at = "null_check"
    /\ IF HasNull(call[i].requests)
       THEN CallReturn(i, RequestsRespondWithError(call[i], E_NULL))
       ELSE /\ CallGoto(i, call[i], "create")
            /\ UNCHANGED inst
    /\ UNCHANGED <<config, binder, core, ctor_attempts>>

\* The TRITONBACKEND_ResponseNew loop; `failing` are the requests for which
\* it fails.
ExecCreateResponses(i, failing) ==
    /\ inst[i].pc = "executing"
    /\ call[i].at = "create"
    /\ failing \subseteq DOMAIN call[i].requests
    /\ LET live == [r \in DOMAIN call[i].requests |-> r \notin failing]
       IN  CallGoto(i, [call[i] EXCEPT !.responses = live, !.created = live],
                    "aggregate")
    /\ UNCHANGED <<config, binder, core, inst, ctor_attempts>>

\* An aggregation loop whose pad size is one variable for all instances.
ExecAggregateSharedPad(i) ==
    /\ inst[i].pc = "executing"
    /\ call[i].at = "aggregate"
    /\ LET st == Aggregate([c |-> call[i], pad |-> inst[i].batch_pad_size_], 1,
                           config.max_batch_size, binder.enable_padding_)
       IN  /\ CallGoto(i, st.c, "checks")
           /\ inst' = [j \in Inst |->
                         [inst[j] EXCEPT !.batch_pad_size_ = st.pad]]
    /\ UNCHANGED <<config, binder, core, ctor_attempts>>

\* The batch aggregation loop.
ExecAggregate(i) ==
    /\ inst[i].pc = "executing"
    /\ call[i].at = "aggregate"
    /\ LET st == Aggregate([c |-> call[i], pad |-> inst[i].batch_pad_size_], 1,
                           config.max_batch_size, binder.enable_padding_)
       IN  /\ CallGoto(i, st.c, "checks")
           /\ inst' = [inst EXCEPT ![i].batch_pad_size_ = st.pad]
    /\ UNCHANGED <<config, binder, core, ctor_attempts>>

\* The return on an empty batch, the max batch size check, SetBatch (which
\* does nothing and returns no error).
ExecChecks(i) ==
    /\ inst[i].pc = "executing"
    /\ call[i].at = "checks"
    /\ IF NoPayload(call[i].total_batch_size)
       THEN CallReturn(i, call[i])
       ELSE /\ IF ~call[i].all_response_failed
                  /\ ExceedsMax(call[i].total_batch_size, config.max_batch_size)
               THEN CallGoto(i, RespondAll(call[i], E_EXCEEDED), "set_inputs")
               ELSE CallGoto(i, call[i], "set_inputs")
            /\ UNCHANGED inst
    /\ UNCHANGED <<config, binder, core, ctor_attempts>>

\* SetInputTensors: the collector delivers the gathered buffer in
\* `memory_type` with `extra` bytes beyond the batched shape's, and the engine's
\* bound input tensor is `dst`.
ExecSetInputTensors(i, memory_type, extra, dst) ==
    /\ inst[i].pc = "executing"
    /\ call[i].at = "set_inputs"
    /\ IF call[i].all_response_failed
       THEN /\ CallGoto(i, call[i], "infer")
            /\ UNCHANGED inst
       ELSE LET src == BatchnTensor(call[i], config.max_batch_size)
                m == SetInputTensors(call[i], config.max_batch_size, memory_type,
                                     ByteSize(src) + extra, dst)
                c == [call[i] EXCEPT !.src = m.src, !.dst = m.dst,
                                     !.copied = m.copied]
            IN  IF m.err = "throw"
                THEN /\ call' = [call EXCEPT ![i] = [c EXCEPT !.at = "thrown"]]
                     /\ inst' = [inst EXCEPT ![i].pc = "terminated"]
                ELSE IF m.err # "none"
                THEN /\ CallGoto(i, RespondAll(c, m.err), "infer")
                     /\ UNCHANGED inst
                ELSE /\ CallGoto(i, c, "infer")
                     /\ UNCHANGED inst
    /\ UNCHANGED <<config, binder, core, ctor_attempts>>

\* An Infer that runs on an infer request it makes for the call.
ExecInferOnNewRequest(i, infer_ok) ==
    /\ inst[i].pc = "executing"
    /\ call[i].at = "infer"
    /\ IF call[i].all_response_failed
       THEN /\ CallGoto(i, call[i], "read_outputs")
            /\ UNCHANGED <<core, inst>>
       ELSE /\ core' = [core EXCEPT !.infer_requests = @ + 1]
            /\ inst' = [inst EXCEPT ![i].infer_request_ = core.infer_requests + 1]
            /\ CallGoto(i, [call[i] EXCEPT !.infer_calls = @ + 1], "read_outputs")
    /\ UNCHANGED <<config, binder, ctor_attempts>>

\* ModelInstanceState::Infer: infer_request_.infer(), a throw of the engine
\* becoming an error.
ExecInfer(i, infer_ok) ==
    /\ inst[i].pc = "executing"
    /\ call[i].at = "infer"
    /\ IF call[i].all_response_failed
       THEN CallGoto(i, call[i], "read_outputs")
       ELSE LET c == [call[i] EXCEPT !.infer_calls = @ + 1,
                                     !.infer_batch = call[i].dst.lead,
                                     !.infer_pad = inst[i].batch_pad_size_]
            IN  IF infer_ok
                THEN CallGoto(i, c, "read_outputs")
                ELSE CallGoto(i, RespondAll(c, E_INFER), "read_outputs")
    /\ UNCHANGED <<config, binder, core, inst, ctor_attempts>>

\* ReadOutputTensors: the engine's output has leading dimension
\* `output_lead`; the responder copies to each response still held its
\* request's rows (the whole output when the model does not batch).
ExecReadOutputTensors(i, output_lead) ==
    /\ inst[i].pc = "executing"
    /\ call[i].at = "read_outputs"
    /\ IF call[i].all_response_failed
       THEN CallGoto(i, call[i], "send")
       ELSE LET e == OutputError(config.max_batch_size,
                                 inst[i].batch_pad_size_, output_lead)
                c == [call[i] EXCEPT !.output_reads = @ + 1,
                                     !.output_lead = output_lead]
            IN  IF e # "none"
                THEN CallGoto(i, RespondAll(c, e), "send")
                ELSE CallGoto(i,
                       [c EXCEPT !.outputs =
                          [r \in DOMAIN c.requests |->
                             IF c.responses[r]
                             THEN Append(@[r],
                                         IF Batching(config.max_batch_size)
                                         THEN c.requests[r].lead
                                         ELSE output_lead)
                             ELSE @[r]]],
                       "send")
    /\ UNCHANGED <<config, binder, core, inst, ctor_attempts>>

\* A send loop that sends nothing.
ExecSendsNothing(i) ==
    /\ inst[i].pc = "executing"
    /\ call[i].at = "send"
    /\ CallGoto(i, call[i], "report")
    /\ UNCHANGED <<config, binder, core, inst, ctor_attempts>>

\* The send loop: every response still held is sent without error.
ExecSend(i) ==
    /\ inst[i].pc = "executing"
    /\ call[i].at = "send"
    /\ CallGoto(i,
          [call[i] EXCEPT !.sent =
              [r \in DOMAIN call[i].requests |->
                 IF call[i].responses[r] THEN Append(@[r], "ok") ELSE @[r]]],
          "report")
    /\ UNCHANGED <<config, binder, core, inst, ctor_attempts>>

\* An iteration of the statistics loop that reports nothing.
ExecReportSkipsStatistics(i) ==
    /\ inst[i].pc = "executing"
    /\ call[i].at = "report"
    /\ call[i].r <= Len(call[i].requests)
    /\ CallGoto(i, call[i], "release")
    /\ UNCHANGED <<config, binder, core, inst, ctor_attempts>>

\* One iteration of the statistics loop, first half: the statistics of
\* request r are reported (TRITONBACKEND_ModelInstanceReportStatistics).
ExecReport(i) ==
    /\ inst[i].pc = "executing"
    /\ call[i].at = "report"
    /\ call[i].r <= Len(call[i].requests)
    /\ LET r == call[i].r
       IN  CallGoto(i,
              [call[i] EXCEPT !.stats[r] = Append(@, call[i].responses[r])],
              "release")
    /\ UNCHANGED <<config, binder, core, inst, ctor_attempts>>

\* One iteration of the statistics loop, second half: request r is released
\* (TRITONBACKEND_RequestRelease), and the loop goes on to the next request.
ExecRelease(i) ==
    /\ inst[i].pc = "executing"
    /\ call[i].at = "release"
    /\ LET r == call[i].r
       IN  CallGoto(i,
              [call[i] EXCEPT !.released[r] = @ + 1, !.r = r + 1],
              "report")
    /\ UNCHANGED <<config, binder, core, inst, ctor_attempts>>

\* Batch statistics that are reported whether or not the call failed.
ExecBatchStatisticsAlways(i) ==
    /\ inst[i].pc = "executing"
    /\ call[i].at = "report"
    /\ call[i].r > Len(call[i].requests)
    /\ CallReturn(i,
          [call[i] EXCEPT !.batch_stats = Append(@, call[i].total_batch_size)])
    /\ UNCHANGED <<config, binder, core, ctor_attempts>>

\* The batch statistics, and the return.
ExecBatchStatistics(i) ==
    /\ inst[i].pc = "executing"
    /\ call[i].at = "report"
    /\ call[i].r > Len(call[i].requests)
    /\ CallReturn(i,
          IF ~call[i].all_response_failed
          THEN [call[i] EXCEPT !.batch_stats =
                                  Append(@, call[i].total_batch_size)]
          ELSE call[i])
    /\ UNCHANGED <<config, binder, core, ctor_attempts>>

\* The locals of a call that returned are gone; the host may call again.
ExecEnd(i) ==
    /\ inst[i].pc = "ready"
    /\ call[i].at = "returned"
    /\ call' = [call EXCEPT ![i] = NoCall]
    /\ UNCHANGED <<config, binder, core, inst, ctor_attempts>>

ExecStep(i) ==
    \/ ExecNullCheck(i)
    \/ \E failing \in SUBSET (1..MaxReq) : ExecCreateResponses(i, failing)
    \/ ExecAggregate(i)
    \/ ExecChecks(i)
    \/ \E memory_type \in MemoryTypes, extra \in {0, FloatBytes},
          dst \in EngineTensors :
           ExecSetInputTensors(i, memory_type, extra, dst)
    \/ \E infer_ok \in BOOLEAN : ExecInfer(i, infer_ok)
    \/ \E output_lead \in EngineLeads : ExecReadOutputTensors(i, output_lead)
    \/ ExecSend(i)
    \/ ExecReport(i)
    \/ ExecRelease(i)
    \/ ExecBatchStatistics(i)
    \/ ExecEnd(i)

\* ------------------------------------------------------ the specifications
\* The binder and the engine after the first instance of the model was
\* constructed without error, and that instance.
LoadedBinder(cfg) ==
    LET b1 == IF cfg.has_parameters
              THEN ParseFlags(NewModelState, cfg.parameters) ELSE NewModelState
        b2 == ReadNetworkDone(b1, 1)
        b3 == [b2 EXCEPT !.config_ = ParseParametersDevice(b2, cfg, "CPU").config_]
    IN  LoadNetworkDone(b3, "CPU", 1)

LoadedCore(cfg) ==
    [NewCore EXCEPT
       !.extensions = IF cfg.has_parameters /\ LoadsCpuExtension(cfg.parameters)
                      THEN 1 ELSE 0,
       !.properties = LoadedBinder(cfg).config_,
       !.read_model_calls = 1, !.read_model_ok = 1,
       !.compile_model_calls = 1, !.compile_model_ok = 1,
       !.infer_requests = 1]

ReadyInstance(cfg) ==
    [NoInstance EXCEPT !.pc = "ready", !.attached = TRUE, !.infer_request_ = 1,
                       !.name_node_map_ = SetNameNodeMap(LoadedBinder(cfg))]

Init ==
    /\ config \in ExecConfigs
    /\ binder = LoadedBinder(config)
    /\ core = LoadedCore(config)
    /\ inst = [i \in Inst |-> IF i = 1 THEN ReadyInstance(config) ELSE NoInstance]
    /\ call = [i \in Inst |-> NoCall]
    /\ ctor_attempts = 1

Next ==
    \E i \in Inst :
        \/ \E reqs \in RequestArrays : ExecBegin(i, reqs, TRUE)
        \/ ExecStep(i)

Spec == Init /\ [][Next]_vars

InitCtor ==
    /\ config \in CtorConfigs
    /\ binder = NewModelState
    /\ core = NewCore
    /\ inst = [i \in Inst |-> NoInstance]
    /\ call = [i \in Inst |-> NoCall]
    /\ ctor_attempts = 0

NextCtor ==
    \E i \in Inst :
        \/ \E kind \in Kinds : CtorBegin(i, kind, TRUE)
        \/ CtorStep(i)

SpecCtor == InitCtor /\ [][NextCtor]_vars

NextConc ==
    \E i \in Inst :
        \/ \E kind \in Kinds : CtorBegin(i, kind, FALSE)
        \/ CtorStep(i)

SpecConc == InitCtor /\ [][NextConc]_vars

\* ------------------------------------------------------------ the claims
RECURSIVE SumLeads(_, _)
SumLeads(reqs, k) == IF k = 0 THEN 0 ELSE reqs[k].lead + SumLeads(reqs, k - 1)

\* The leading dimensions of the call's requests, summed.
Summed(c) == SumLeads(c.requests, Len(c.requests))

\* Every request of the call is there and has a first input, so each has a
\* leading dimension.
WellFormed(c) ==
    \A r \in DOMAIN c.requests : ~c.requests[r].null /\ ~c.requests[r].input_err

Began(c) == c.at # "none"
Ended(c) == c.at \in {"returned", "thrown"}
Aggregated(c) == c.at \notin {"none", "null_check", "create", "aggregate"}
PastChecks(c) == Aggregated(c) /\ c.at # "checks"

\* C1: in a call whose requests are all non-null, every request has been
\* released exactly once when ProcessRequests is left.
C1_ReleasedExactlyOnce ==
    \A i \in Inst :
        (Ended(call[i]) /\ ~HasNull(call[i].requests))
            => \A r \in DOMAIN call[i].requests : call[i].released[r] = 1

\* C2: with max batch size M > 0 and padding disabled, a call whose summed
\* leading dimensions differ from M never invokes Infer, and when it is over
\* every response that was created has been sent once, with the batch size
\* mismatch error; with at least one request the call is marked failed by it.
C2_MismatchFailsCall ==
    \A i \in Inst :
        LET c == call[i]
        IN  (/\ Began(c) /\ WellFormed(c)
             /\ config.max_batch_size > 0 /\ ~binder.enable_padding_
             /\ Summed(c) # config.max_batch_size)
            => /\ c.infer_calls = 0
               /\ Ended(c) =>
                    /\ \A r \in DOMAIN c.requests :
                           c.created[r] => c.sent[r] = <<E_MISMATCH>>
                    /\ Len(c.requests) >= 1 =>
                           c.all_response_failed /\ c.err = E_MISMATCH

C2_Witness ==
    \E i \in Inst :
        LET c == call[i]
        IN  /\ c.at = "returned" /\ WellFormed(c) /\ Len(c.requests) = 2
            /\ config.max_batch_size > 0 /\ ~binder.enable_padding_
            /\ Summed(c) # config.max_batch_size
            /\ \E r \in DOMAIN c.requests : c.sent[r] = <<E_MISMATCH>>

\* C3: with max batch size M > 0 and padding disabled, a call of R >= 1
\* requests whose summed leading dimensions equal M leaves the batch
\* aggregation loop without having been failed.
C3_TotalIsValidated ==
    \A i \in Inst :
        LET c == call[i]
        IN  (/\ c.at = "checks" /\ WellFormed(c) /\ Len(c.requests) >= 1
             /\ config.max_batch_size > 0 /\ ~binder.enable_padding_
             /\ Summed(c) = config.max_batch_size)
            => ~c.all_response_failed

\* C4: when two instances of the model are constructed on two threads, from a
\* model that is neither read nor compiled, and both constructions succeed,
\* the artifact was read once and the graph compiled once.
C4_OneReadOneCompile ==
    (ctor_attempts = 2 /\ \A i \in Inst : inst[i].pc = "ready")
        => core.read_model_calls = 1 /\ core.compile_model_calls = 1

\* C5: over the constructions of the instances of a model, made one at a
\* time, core.read_model returns a graph at most once and core.compile_model
\* returns a compiled graph at most once for the device.
C5_ReadAndCompiledOnce ==
    core.read_model_ok <= 1 /\ core.compile_model_ok <= 1

C5_Witness ==
    /\ ctor_attempts >= 3
    /\ \A i \in Inst : inst[i].pc = "ready"
    /\ core.read_model_ok = 1 /\ core.compile_model_ok = 1

\* C6: once the model is read and loaded on the device, no step of a
\* construction calls read_model or compile_model or changes the binder's
\* compiled graphs or its name -> node map, and the map of every constructed
\* instance is the binder's, hence that of every other instance.
C6_SecondInstanceReuses ==
    [][(binder.network_read_ /\ "CPU" \in DOMAIN binder.executable_network_)
         => /\ core'.read_model_calls = core.read_model_calls
            /\ core'.compile_model_calls = core.compile_model_calls
            /\ binder'.executable_network_ = binder.executable_network_
            /\ binder'.name_node_map = binder.name_node_map
            /\ \A i \in Inst :
                   inst'[i].pc = "ready"
                       => /\ inst'[i].name_node_map_ = binder'.name_node_map
                          /\ \A j \in Inst :
                                 inst'[j].pc = "ready"
                                     => inst'[j].name_node_map_
                                            = inst'[i].name_node_map_]_vars

C6_Witness ==
    /\ \A i \in Inst : inst[i].pc = "ready"
    /\ inst[1].name_node_map_ = inst[2].name_node_map_
    /\ DOMAIN inst[1].name_node_map_ = InputNames
    /\ core.read_model_calls = 1 /\ core.compile_model_calls = 1

\* C7: with max batch size M > 0 and padding enabled, in a call whose summed
\* leading dimensions are M - k with 0 < k < M, whenever Infer has been
\* invoked the pad size was k at that moment, and the source view, the bytes
\* copied to the engine and the engine's bound input all have batch size
\* M - k.
C7_ShortBatchRunsShort ==
    \A i \in Inst :
        LET c == call[i]
            M == config.max_batch_size
        IN  (/\ Began(c) /\ WellFormed(c)
             /\ M > 0 /\ binder.enable_padding_
             /\ 0 < Summed(c) /\ Summed(c) < M
             /\ c.infer_calls > 0)
            => /\ c.infer_pad = M - Summed(c)
               /\ inst[i].batch_pad_size_ = M - Summed(c)
               /\ c.src.lead = Summed(c)
               /\ c.copied = ByteSize(Tensor(Summed(c), 1, FloatBytes))
               /\ c.infer_batch = Summed(c)

C7_Witness ==
    \E i \in Inst :
        LET c == call[i]
        IN  /\ c.at = "returned" /\ WellFormed(c) /\ Len(c.requests) = 2
            /\ binder.enable_padding_
            /\ 0 < Summed(c) /\ Summed(c) < config.max_batch_size
            /\ c.infer_calls = 1 /\ c.infer_pad = 1

\* C8: for a model with max batch size M > 0, an engine output that reaches
\* output distribution with a leading dimension other than M - pad fails the
\* call with the output batch size error, and none of it is copied to a
\* response.
C8_OutputBatchIsValidated ==
    \A i \in Inst :
        LET c == call[i]
        IN  (/\ config.max_batch_size > 0 /\ c.output_reads > 0
             /\ c.output_lead # config.max_batch_size - inst[i].batch_pad_size_)
            => /\ c.err = E_OUTPUT
               /\ \A r \in DOMAIN c.requests : c.outputs[r] = <<>>

\* C9 as claimed: with max batch size M > 0, a call whose summed total
\* exceeds M is failed with the batch size exceeded error, padding enabled or
\* not.
C9_ExceededError ==
    \A i \in Inst :
        LET c == call[i]
        IN  (/\ PastChecks(c) /\ WellFormed(c)
             /\ config.max_batch_size > 0
             /\ Summed(c) > config.max_batch_size)
            => c.all_response_failed /\ c.err = E_EXCEEDED

\* C9 as amended: with max batch size M > 0, a call whose summed total exceeds
\* M is failed and never invokes Infer; the error is the batch size exceeded
\* error when padding is enabled and the batch size mismatch error, raised by
\* the aggregation loop, when it is disabled.
C9_ExceededFailsCall ==
    \A i \in Inst :
        LET c == call[i]
        IN  (/\ Began(c) /\ WellFormed(c)
             /\ config.max_batch_size > 0
             /\ Summed(c) > config.max_batch_size)
            => /\ c.infer_calls = 0
               /\ PastChecks(c) =>
                    /\ c.all_response_failed
                    /\ c.err = IF binder.enable_padding_
                               THEN E_EXCEEDED ELSE E_MISMATCH
                    /\ \A r \in DOMAIN c.requests :
                           c.created[r] => c.sent[r] = <<c.err>>

C9_Witness ==
    \E i \in Inst :
        LET c == call[i]
        IN  /\ c.at = "returned" /\ WellFormed(c)
            /\ config.max_batch_size > 0 /\ binder.enable_padding_
            /\ Summed(c) > config.max_batch_size
            /\ \E r \in DOMAIN c.requests : c.sent[r] = <<E_EXCEEDED>>

\* C10: with max batch size 0, a call of R >= 1 requests leaves the
\* aggregation loop with total batch size R, the pad size is not written (it
\* keeps the 0 of the constructor) and the batch size mismatch error is not
\* raised.
C10_NoBatchingCountsRequests ==
    \A i \in Inst :
        LET c == call[i]
        IN  (/\ Aggregated(c) /\ ~HasNull(c.requests) /\ Len(c.requests) >= 1
             /\ config.max_batch_size = 0)
            => /\ c.total_batch_size = Len(c.requests)
               /\ c.pad_writes = 0
               /\ inst[i].batch_pad_size_ = 0
               /\ c.err # E_MISMATCH
               /\ \A r \in DOMAIN c.requests : E_MISMATCH \notin
                      {c.sent[r][k] : k \in DOMAIN c.sent[r]}

C10_Witness ==
    \E i \in Inst :
        LET c == call[i]
        IN  /\ c.at = "returned" /\ ~HasNull(c.requests) /\ Len(c.requests) = 2
            /\ config.max_batch_size = 0
            /\ c.total_batch_size = 2

\* A call whose requests are all there and whose computed total batch size
\* is 0 once the aggregation loop is over.
EmptyBatch(c) ==
    Aggregated(c) /\ ~HasNull(c.requests) /\ c.total_batch_size = 0

\* C11 as claimed: a call whose total batch size is 0 sends no response,
\* success or error, for any request, invokes Infer never and reports no
\* statistics.
C11_EmptyBatchSendsNothing ==
    \A i \in Inst :
        LET c == call[i]
        IN  EmptyBatch(c)
            => /\ \A r \in DOMAIN c.requests : c.sent[r] = <<>>
               /\ c.infer_calls = 0
               /\ \A r \in DOMAIN c.requests : c.stats[r] = <<>>
               /\ c.batch_stats = <<>>

\* C11 as amended: a call whose total batch size is 0 returns right after the
\* aggregation loop: Infer is not invoked, no statistics are reported and no
\* success response is sent. A response is sent only when the aggregation
\* loop itself failed the call (the batch size mismatch error of a batching
\* model without padding, or the error of fetching a request's first input):
\* then every created response was sent once, with that error. With padding
\* enabled and every first input fetched, or with no request, nothing is sent.
C11_EmptyBatchReturns ==
    \A i \in Inst :
        LET c == call[i]
        IN  EmptyBatch(c)
            => /\ c.infer_calls = 0
               /\ c.output_reads = 0
               /\ \A r \in DOMAIN c.requests : c.stats[r] = <<>>
               /\ c.batch_stats = <<>>
               /\ c.at \in {"checks", "returned"}
               /\ \A r \in DOMAIN c.requests :
                      c.sent[r] = IF c.created[r] /\ c.all_response_failed
                                  THEN <<c.err>> ELSE <<>>
               /\ c.all_response_failed
                      => /\ c.err \in {E_MISMATCH, E_INPUT}
                         /\ c.err = E_MISMATCH =>
                                /\ config.max_batch_size > 0
                                /\ ~binder.enable_padding_
               /\ (WellFormed(c) /\ binder.enable_padding_)
                      => ~c.all_response_failed

C11_Witness ==
    \E i \in Inst :
        LET c == call[i]
        IN  /\ c.at = "returned" /\ EmptyBatch(c) /\ WellFormed(c)
            /\ Len(c.requests) = 2
            /\ \A r \in DOMAIN c.requests : c.created[r] /\ c.sent[r] = <<>>
            /\ binder.enable_padding_ /\ config.max_batch_size > 0

\* C12: in a call whose request array holds a null entry, at whatever
\* position, ProcessRequests creates no response object itself, runs no
\* aggregation, marshalling, native execution, output reading or statistics
\* reporting, and returns straight from the null check, having handed the
\* whole array to RequestsRespondWithError with the null request error: every
\* request that is there got that error as its only response.
C12_NullRequestFailsCall ==
    \A i \in Inst :
        LET c == call[i]
        IN  (Began(c) /\ \E r \in DOMAIN c.requests : c.requests[r].null)
            => /\ c.at \in {"null_check", "returned"}
               /\ \A r \in DOMAIN c.requests : ~c.created[r] /\ ~c.responses[r]
               /\ c.total_batch_size = 0 /\ c.pad_writes = 0
               /\ c.copied = 0 /\ c.infer_calls = 0 /\ c.output_reads = 0
               /\ \A r \in DOMAIN c.requests : c.stats[r] = <<>>
               /\ c.batch_stats = <<>>
               /\ c.at = "returned"
                      => /\ c.err = E_NULL
                         /\ \A r \in DOMAIN c.requests :
                                ~c.requests[r].null => c.sent[r] = <<E_NULL>>

C12_Witness ==
    \E i \in Inst :
        LET c == call[i]
        IN  /\ c.at = "returned" /\ Len(c.requests) = 2
            /\ ~c.requests[1].null /\ c.requests[2].null
            /\ c.sent[1] = <<E_NULL>> /\ c.err = E_NULL

\* C13: no exception leaves TRITONBACKEND_ModelInstanceExecute: no execution
\* call ends by an exception thrown through ProcessRequests, and no instance
\* is left by its thread in the middle of a call.
C13_NoExceptionEscapes ==
    \A i \in Inst : call[i].at # "thrown" /\ inst[i].pc # "terminated"

\* C14: when the source view of an input and the engine's tensor for it
\* differ in shape or byte size, no byte is copied to the engine and the call
\* is failed by an error: all_response_failed is set, every created response
\* has been sent with the error, and ProcessRequests goes on to its end.
C14_ShapeMismatchFailsCall ==
    \A i \in Inst :
        LET c == call[i]
        IN  (c.src # NoTensor /\ TensorsDiffer(c.src, c.dst))
            => /\ c.copied = 0
               /\ c.all_response_failed
               /\ c.at # "thrown"
               /\ \A r \in DOMAIN c.requests : c.created[r] => c.sent[r] # <<>>

\* The created responses of the call have all been sent, each once, as `how`.
AllSentAs(c, how) ==
    \A r \in DOMAIN c.requests : c.created[r] => c.sent[r] = <<how>>

\* ProcessRequests is past its send loop.
SendDone(c) ==
    \/ c.at \in {"report", "release"}
    \/ c.at = "returned" /\ ~HasNull(c.requests) /\ c.total_batch_size # 0

C16_FailedCallReportsStatistics ==
    \A i \in Inst :
        LET c == call[i]
        IN  (/\ Ended(c) /\ ~HasNull(c.requests)
             /\ c.all_response_failed \/ c.at = "thrown")
            => \A r \in DOMAIN c.requests : c.stats[r] = <<FALSE>>

\* C17: no step of an execution call changes the ModelState (network_read_,
\* executable_network_, config_, name_node_map, the three flags) or the
\* engine's compiled state, or replaces the infer request, the device or the
\* attachment of an instance; and an instance whose call returned, failed or
\* not, is ready for the next call.
C17_CallLeavesBinderAlone ==
    [][/\ binder' = binder
       /\ core' = core
       /\ \A i \in Inst :
              /\ inst'[i].infer_request_ = inst[i].infer_request_
              /\ inst'[i].device_ = inst[i].device_
              /\ inst'[i].attached = inst[i].attached
              /\ call'[i].at = "returned" => inst'[i].pc = "ready"]_vars

C17_Witness ==
    \E i \in Inst :
        /\ call[i].at = "returned" /\ call[i].all_response_failed
        /\ call[i].err = E_INFER
        /\ inst[i].pc = "ready" /\ inst[i].infer_request_ = 1
        /\ binder = LoadedBinder(config)

\* C18: a request of a call (with no null request) for which no response
\* could be created has, when ProcessRequests is left, no response sent, its
\* statistics reported once as non-successful, and one release.
C18_UncreatedStillReleased ==
    \A i \in Inst :
        LET c == call[i]
        IN  (Ended(c) /\ ~HasNull(c.requests))
            => \A r \in DOMAIN c.requests :
                   ~c.created[r]
                       => /\ c.sent[r] = <<>>
                          /\ c.stats[r] = <<FALSE>>
                          /\ c.released[r] = 1

\* The construction of instance i was ended by an error.
CtorFailed(i) == inst[i].init_err # "none"

\* C19: a construction that an error ended has stopped there and left
\* nothing: the instance is back where no construction step applies to it,
\* nothing is attached to the host's handle, it has no infer request and no
\* name -> node map, and the error is the one of the failing step. For the
\* first construction of a model this shows in the engine: the steps after
\* the failing one were not run.
C19_FailedConstructionAborts ==
    \A i \in Inst :
        /\ CtorFailed(i)
              => /\ inst[i].pc = "idle" /\ ~inst[i].attached
                 /\ inst[i].infer_request_ = 0
                 /\ inst[i].name_node_map_ = EmptyMap
        /\ inst[i].attached => ~CtorFailed(i) /\ inst[i].infer_request_ > 0
        /\ (CtorFailed(i) /\ ctor_attempts = 1)
              => /\ core.infer_requests = 0
                 /\ inst[i].init_err = "INVALID_ARG kind"
                        => core = NewCore /\ binder = NewModelState
                 /\ inst[i].init_err
                        \in {"INTERNAL loading custom CPU extensions",
                             "UNAVAILABLE unable to find model",
                             "INTERNAL reading network"}
                        => /\ NetworkNotRead(binder)
                           /\ core.properties = EmptyMap
                           /\ core.compile_model_calls = 0
                 /\ inst[i].init_err
                        \in {"INVALID_ARG", "UNSUPPORTED_PARAMETER",
                             "INTERNAL configuring inference engine"}
                        => core.compile_model_calls = 0
                 /\ inst[i].init_err = "INTERNAL loading network"
                        => core.compile_model_ok = 0

C19_Witness ==
    \E i \in Inst :
        /\ CtorFailed(i) /\ ctor_attempts = 1
        /\ inst[i].init_err = "INTERNAL loading network"
        /\ ~NetworkNotRead(binder) /\ core.compile_model_calls = 1
        /\ ~inst[i].attached

\* C20: with a parameter block that holds a key outside the recognized set,
\* no construction gets past the parsing of the device configuration: the
\* device is never loaded and no instance is constructed.
C20_UnknownKeyRejected ==
    (config.has_parameters /\ HasUnknownKey(config.parameters))
        => /\ NetworkNotLoaded(binder, "CPU")
           /\ core.compile_model_calls = 0
           /\ \A i \in Inst :
                  inst[i].pc \in {"idle", "ctor_parse", "ctor_read_guard",
                                  "ctor_read", "ctor_check_loaded",
                                  "ctor_parse_device"}

\* ------------------------------------- constructions over device options
\* The values a device option is written with: each word of a domain in
\* lower, upper and mixed case, numbers, and words of no domain.
ParseValues ==
    {S_yes, S_YES, <<"Y", "e", "s">>, S_no, S_NO, S_numa, S_NUMA,
     <<"N", "u", "m", "a">>, S_auto, <<"A", "U", "T", "O">>,
     <<"4">>, <<"1", "2">>, <<"4", "x">>, <<"x">>}

\* Model configurations with one device option set, or two of them.
ParseConfigs ==
    {[max_batch_size |-> MaxM, has_parameters |-> TRUE,
      parameters |-> [NoValues EXCEPT ![DeviceKeys[k]] = v]] :
        k \in DOMAIN DeviceKeys, v \in ParseValues}
    \cup {[max_batch_size |-> MaxM, has_parameters |-> TRUE,
           parameters |-> [NoValues EXCEPT !["CPU_THREADS_NUM"] = v,
                                           !["CPU_BIND_THREAD"] = w]] :
            v \in {<<"4">>, <<"x">>}, w \in {S_NUMA, S_auto}}

InitParse ==
    /\ config \in ParseConfigs
    /\ binder = NewModelState
    /\ core = NewCore
    /\ inst = [i \in Inst |-> NoInstance]
    /\ call = [i \in Inst |-> NoCall]
    /\ ctor_attempts = 0

SpecParse == InitParse /\ [][NextCtor]_vars

\* The domain of each recognized device option, over lower-case values.
Digits == {"0", "1", "2", "3", "4", "5", "6", "7", "8", "9"}
DigitsOnly(s) == \A k \in DOMAIN s : s[k] \in Digits
InOptionDomain(mkey, low) ==
    CASE mkey = "CPU_THREADS_NUM" -> DigitsOnly(low)
      [] mkey = "ENFORCE_BF16" -> low \in {S_yes, S_no}
      [] mkey = "CPU_BIND_THREAD" -> low \in {S_yes, S_numa, S_no}
      [] mkey = "CPU_THROUGHPUT_STREAMS" ->
             DigitsOnly(low) \/ low \in {S_auto, S_numa}

\* The device options the configuration sets.
OptionsSet == {k \in DOMAIN DeviceKeys : config.parameters[DeviceKeys[k]] # S_empty}

\* An instance is past the parsing of the device options.
PastParseDevice(i) ==
    inst[i].pc \in {"ctor_configure", "ctor_load_guard", "ctor_compile",
                    "ctor_infer_request", "ctor_set_map", "ready"}

\* C21: a non-empty value of a recognized device option is parsed without
\* error exactly when its lower-cased form is in the option's domain, and
\* with the invalid-argument error for that key otherwise; two values that
\* differ only in the case of their letters are parsed to the same result.
\* So a construction gets past the device options only when every option set
\* is in its domain, and fails on them only when one is not.
C21_OptionDomains ==
    /\ \A k \in OptionsSet :
           LET mkey == DeviceKeys[k]
               value == config.parameters[mkey]
               h == ParseParameterHelper(mkey, value)
           IN  /\ h.err = "none" <=> InOptionDomain(mkey, ToLower(value))
               /\ h.err # "none" => h.err = "INVALID_ARG" /\ h.ov_key = mkey
               /\ \A w \in ParseValues :
                      ToLower(w) = ToLower(value)
                          => ParseParameterHelper(mkey, w) = h
    /\ \A i \in Inst :
           /\ PastParseDevice(i) /\ ctor_attempts = 1
                  => \A k \in OptionsSet :
                         InOptionDomain(DeviceKeys[k],
                                        ToLower(config.parameters[DeviceKeys[k]]))
           /\ inst[i].init_err = "INVALID_ARG"
                  => \E k \in OptionsSet :
                         ~InOptionDomain(DeviceKeys[k],
                                         ToLower(config.parameters[DeviceKeys[k]]))

C21_Witness ==
    \E i \in Inst :
        /\ inst[i].pc = "ready"
        /\ config.parameters["CPU_BIND_THREAD"] = S_NUMA
        /\ config.parameters["CPU_THREADS_NUM"] = <<"4">>
        /\ binder.config_["CPU"] =
               Put(Put(EmptyMap, "CPU_THREADS_NUM", <<"4">>),
                   "CPU_BIND_THREAD", S_NUMA)

\* C22: a call that reached the native execution returns only after Infer
\* returned and after every response it sends has been sent: when the call
\* has returned, no created response is unsent, and a returned call does
\* nothing any more (its record is only dropped). A success is sent only
\* after Infer and the reading of the outputs.
C22_ReturnsAfterInferAndSends ==
    [][\A i \in Inst :
           LET c == call[i]
               d == call'[i]
           IN  /\ (d.at = "returned" /\ d.infer_calls > 0)
                      => /\ \A r \in DOMAIN d.requests :
                                d.created[r] => Len(d.sent[r]) = 1
                         /\ c.at \in {"report", "returned"}
               /\ c.at = "returned" => d = c \/ d = NoCall
               /\ \A r \in DOMAIN d.requests :
                      d.sent[r] = <<"ok">>
                          => d.infer_calls = 1 /\ d.output_reads = 1]_vars

C22_Witness ==
    \E i \in Inst :
        LET c == call[i]
        IN  /\ c.at = "returned" /\ c.infer_calls = 1 /\ Len(c.requests) = 2
            /\ AllSentAs(c, "ok")
            /\ \A r \in DOMAIN c.requests : c.created[r]

\* ---------------------------------- execution calls on two instances
\* Two instances of the model were constructed; the host calls each of them
\* from its own thread, one call at a time per instance.
ConcConfigs == {cfg \in ExecConfigs : cfg.max_batch_size = MaxM}

ConcRequestArrays ==
    {reqs \in RequestArrays : Len(reqs) = 1}

InitExecConc ==
    /\ config \in ConcConfigs
    /\ binder = LoadedBinder(config)
    /\ core = [LoadedCore(config) EXCEPT !.infer_requests = 2]
    /\ inst = [i \in Inst |->
                 [ReadyInstance(config) EXCEPT !.infer_request_ = i]]
    /\ call = [i \in Inst |-> NoCall]
    /\ ctor_attempts = 2

NextExecConc ==
    \E i \in Inst :
        \/ \E reqs \in ConcRequestArrays : ExecBegin(i, reqs, FALSE)
        \/ ExecStep(i)

SpecExecConc == InitExecConc /\ [][NextExecConc]_vars

\* What a call on an instance comes to when nothing else runs, as far as its
\* requests decide it: the locals after the aggregation loop, from the pad
\* size `pad` the instance had when the call began its loop.
AloneAggregate(c, pad) ==
    Aggregate([c |-> [NewCall(c.requests) EXCEPT !.responses = c.created,
                                                 !.created = c.created],
               pad |-> pad],
              1, config.max_batch_size, binder.enable_padding_)

\* C23: with calls running on two instances of the model at once, a step of
\* one call writes the locals of that call and the state of its own instance
\* only: the other call, the other instance, the ModelState and the engine
\* are as before. So the call comes to what it comes to alone: the
\* aggregation step gives the total batch size, the failure and the pad size
\* that the loop computes from the call's own requests and the instance's own
\* earlier pad size, Infer runs with that pad size, and a call that ran to
\* its end has released each of its requests once.
C23_CallsDoNotInterfere ==
    [][/\ binder' = binder /\ core' = core
       /\ \A i \in Inst : \A j \in Inst \ {i} :
              (call'[i] # call[i] \/ inst'[i] # inst[i])
                  => call'[j] = call[j] /\ inst'[j] = inst[j]
       /\ \A i \in Inst :
              LET c == call[i]
                  d == call'[i]
                  alone == AloneAggregate(c, inst[i].batch_pad_size_)
              IN  /\ (c.at = "aggregate" /\ d.at = "checks")
                         => /\ d.total_batch_size = alone.c.total_batch_size
                            /\ d.all_response_failed = alone.c.all_response_failed
                            /\ d.sent = alone.c.sent
                            /\ inst'[i].batch_pad_size_ = alone.pad
                  /\ (Aggregated(c) /\ Aggregated(d))
                         => inst'[i].batch_pad_size_ = inst[i].batch_pad_size_
                  /\ d.infer_calls > 0
                         => d.infer_pad = inst'[i].batch_pad_size_
                  /\ (c.at = "report" /\ d.at = "returned")
                         => \A r \in DOMAIN d.requests : d.released[r] = 1]_vars

\* Both instances are in the middle of a call, past aggregation, with
\* different pad sizes.
C23_Witness ==
    /\ \A i \in Inst : Aggregated(call[i]) /\ call[i].at = "infer"
    /\ inst[1].batch_pad_size_ = 1 /\ inst[2].batch_pad_size_ = 0
    /\ call[1].total_batch_size # call[2].total_batch_size
    /\ ~call[1].all_response_failed /\ ~call[2].all_response_failed

\* ------------------------------- constructions and calls, one at a time
\* The life of the instances of a model: the host constructs them and calls
\* the constructed ones, one entry point at a time.
LifeConfigs == {cfg \in ConcConfigs : cfg.parameters["ENABLE_BATCH_PADDING"] = S_YES}

LifeRequestArrays ==
    {reqs \in ConcRequestArrays : reqs[1].null \/ reqs[1].lead = 1}

InitLife ==
    /\ config \in LifeConfigs
    /\ binder = NewModelState
    /\ core = NewCore
    /\ inst = [i \in Inst |-> NoInstance]
    /\ call = [i \in Inst |-> NoCall]
    /\ ctor_attempts = 0

NextLife ==
    \E i \in Inst :
        \/ \E kind \in Kinds : CtorBegin(i, kind, TRUE)
        \/ CtorStep(i)
        \/ \E reqs \in LifeRequestArrays : ExecBegin(i, reqs, TRUE)
        \/ ExecStep(i)

SpecLife == InitLife /\ [][NextLife]_vars

\* C24: the infer request of an instance is created once, by the
\* CreateInferRequest step of its construction, and is never replaced: the
\* handle of an instance only ever changes from none to a fresh one, at that
\* step; a constructed instance has one; no step of an execution call changes
\* it, so every Infer of the instance runs on the handle its construction
\* created, and no call makes the engine create another.
C24_InferRequestCreatedOnce ==
    [][\A i \in Inst :
           /\ inst'[i].infer_request_ # inst[i].infer_request_
                  => /\ inst[i].pc = "ctor_infer_request"
                     /\ inst[i].infer_request_ = 0
                     /\ inst'[i].infer_request_ = core'.infer_requests
                     /\ core'.infer_requests = core.infer_requests + 1
           /\ inst'[i].pc \in {"ready", "executing", "terminated"}
                  => inst'[i].infer_request_ > 0
           /\ inst[i].pc = "executing"
                  => /\ core'.infer_requests = core.infer_requests
                     /\ inst'[i].infer_request_ = inst[i].infer_request_
           /\ call'[i].infer_calls > call[i].infer_calls
                  => /\ inst[i].pc = "executing"
                     /\ inst[i].infer_request_ > 0
                     /\ inst'[i].infer_request_ = inst[i].infer_request_]_vars

\* Both instances were constructed, each with its own infer request, and one
\* of them has run Infer.
C24_Witness ==
    /\ \A i \in Inst : inst[i].pc \in {"ready", "executing"}
    /\ inst[1].infer_request_ # inst[2].infer_request_
    /\ core.infer_requests = 2
    /\ \E i \in Inst : call[i].infer_calls = 1 /\ call[i].at = "returned"

\* C25: over the constructions of the instances of a model, the extension
\* library is loaded into the engine at most once.
C25_ExtensionLoadedOnce == core.extensions <= 1

\* C26: for a batching model with padding enabled, once the aggregation loop
\* of a call with 1 <= total <= M is over, the pad size of the instance is
\* M - total (0 when the batch is full).
C26_PadIsShortfall ==
    \A i \in Inst :
        LET c == call[i]
            M == config.max_batch_size
        IN  (/\ Aggregated(c) /\ WellFormed(c)
             /\ M > 0 /\ binder.enable_padding_
             /\ 1 <= Summed(c) /\ Summed(c) <= M)
            => inst[i].batch_pad_size_ = M - Summed(c)

\* C27: the pad size of an instance is always within 0..M: the subtraction
\* M - total is never made with total > M (a negative number here is the
\* size_t 2^64 larger).
C27_PadNeverWraps ==
    \A i \in Inst :
        /\ 0 <= inst[i].batch_pad_size_
        /\ inst[i].batch_pad_size_ <= config.max_batch_size

\* C28: with max batch size 0, a call with two or more (non-null) requests
\* never invokes Infer and, once past the maximum check, is failed with the
\* batch-size-exceeded error, which is what every created response is sent
\* with; a call that invoked Infer had exactly one request.
C28_NoBatchingRunsOneRequest ==
    \A i \in Inst :
        LET c == call[i]
        IN  (/\ Began(c) /\ config.max_batch_size = 0
             /\ \A r \in DOMAIN c.requests : ~c.requests[r].null)
            => /\ c.infer_calls > 0 => Len(c.requests) = 1
               /\ Len(c.requests) >= 2 =>
                    /\ c.infer_calls = 0
                    /\ PastChecks(c) =>
                         c.all_response_failed /\ c.err = E_EXCEEDED
                    /\ c.at = "returned" => AllSentAs(c, E_EXCEEDED)

C28_Witness ==
    \E i \in Inst :
        LET c == call[i]
        IN  /\ c.at = "returned" /\ config.max_batch_size = 0
            /\ Len(c.requests) = 2
            /\ \A r \in DOMAIN c.requests :
                   ~c.requests[r].null /\ c.sent[r] = <<E_EXCEEDED>>
            /\ c.infer_calls = 0

\* C29: when a call with non-null requests has returned, every response
\* that was created has been sent exactly once (with the call's error when
\* the call failed, as a final success otherwise).
C29_CreatedSentOnce ==
    \A i \in Inst :
        LET c == call[i]
        IN  (/\ c.at = "returned"
             /\ \A r \in DOMAIN c.requests : ~c.requests[r].null)
            => \A r \in DOMAIN c.requests :
                   c.created[r] =>
                       c.sent[r] = <<IF c.all_response_failed
                                     THEN c.err ELSE "ok">>

\* C30 (as stated): in a call with non-null requests, every created response
\* is sent before any statistics are reported, and no request is released
\* before the statistics of every request and, unless the call failed, the
\* batch statistics are reported.
C30_SendReportRelease ==
    \A i \in Inst :
        LET c == call[i]
        IN  (/\ Began(c)
             /\ \A r \in DOMAIN c.requests : ~c.requests[r].null)
            => /\ (\E r \in DOMAIN c.requests : c.stats[r] # <<>>)
                      => \A r \in DOMAIN c.requests :
                             c.created[r] => Len(c.sent[r]) = 1
               /\ (\E r \in DOMAIN c.requests : c.released[r] > 0)
                      => /\ \A r \in DOMAIN c.requests : c.stats[r] # <<>>
                         /\ ~c.all_response_failed => c.batch_stats # <<>>

\* C30 (amended): in a call with non-null requests, every created response
\* is sent before any statistics are reported; then, request by request,
\* the statistics of a request are reported and the request is released, so
\* a request is released after its own statistics and before the statistics
\* of the next request; the batch statistics are reported last, after every
\* request was released, and only when the call did not fail.
C30_SendThenReportAndReleaseEach ==
    \A i \in Inst :
        LET c == call[i]
        IN  (/\ Began(c)
             /\ \A r \in DOMAIN c.requests : ~c.requests[r].null)
            => /\ (\E r \in DOMAIN c.requests : c.stats[r] # <<>>)
                      => \A r \in DOMAIN c.requests :
                             c.created[r] => Len(c.sent[r]) = 1
               /\ \A r \in DOMAIN c.requests :
                      /\ c.released[r] \in {0, 1}
                      /\ c.released[r] = 1 => Len(c.stats[r]) = 1
                      /\ c.stats[r] # <<>>
                             => \A q \in 1..(r - 1) : c.released[q] = 1
               /\ c.batch_stats # <<>>
                      => /\ ~c.all_response_failed
                         /\ \A r \in DOMAIN c.requests : c.released[r] = 1

\* The first request of a call of two is released while the statistics of
\* the second are still to be reported.
C30_Witness ==
    \E i \in Inst :
        LET c == call[i]
        IN  /\ c.at = "report" /\ Len(c.requests) = 2
            /\ ~c.requests[1].null /\ ~c.requests[2].null
            /\ c.sent = <<<<"ok">>, <<"ok">>>>
            /\ Len(c.stats[1]) = 1 /\ c.released[1] = 1
            /\ c.stats[2] = <<>> /\ c.released[2] = 0
            /\ c.batch_stats = <<>>

\* C31 (as stated): a call reports batch statistics at most once, carrying
\* the total batch size of the aggregator, and a call that returned has
\* reported them exactly when no step of it failed.
C31_BatchStatisticsIffNoFailure ==
    \A i \in Inst :
        LET c == call[i]
        IN  /\ Len(c.batch_stats) <= 1
            /\ c.batch_stats # <<>> => c.batch_stats = <<c.total_batch_size>>
            /\ c.at = "returned"
                   => (c.batch_stats # <<>>
                          <=> ~c.all_response_failed /\ c.err = "none")

\* C31 (amended): a call reports batch statistics at most once, carrying
\* the total batch size the aggregator computed (the summed leading
\* dimensions for a batching model, the number of requests otherwise), and
\* a call that returned has reported them exactly when no step of it failed
\* and its total batch size was not 0: a call of total batch size 0 returns
\* before the statistics although nothing failed.
C31_BatchStatisticsOnCompletedCall ==
    \A i \in Inst :
        LET c == call[i]
        IN  /\ Len(c.batch_stats) <= 1
            /\ c.batch_stats # <<>>
                   => /\ c.batch_stats = <<c.total_batch_size>>
                      /\ c.total_batch_size =
                             IF config.max_batch_size > 0
                             THEN Summed(c) ELSE Len(c.requests)
            /\ c.at = "returned"
                   => (c.batch_stats # <<>>
                          <=> /\ ~c.all_response_failed /\ c.err = "none"
                              /\ c.total_batch_size # 0)

\* A padded call of two requests of batch size 1 each succeeded and reported
\* batch statistics with total batch size 2.
C31_Witness ==
    \E i \in Inst :
        LET c == call[i]
        IN  /\ c.at = "returned" /\ binder.enable_padding_
            /\ config.max_batch_size = 2 /\ Len(c.requests) = 2
            /\ c.requests[1].lead = 1 /\ c.requests[2].lead = 1
            /\ c.sent = <<<<"ok">>, <<"ok">>>>
            /\ c.batch_stats = <<2>>

\* C32: under any interleaving of instance constructions the binder only
\* moves forward: a device is loaded only if the read flag is set, no
\* compile_model call is made while the read flag is unset, and no step
\* clears the read flag or removes a loaded device.
C32_BinderNeverGoesBack ==
    /\ [](/\ DOMAIN binder.executable_network_ # {} => binder.network_read_
          /\ core.compile_model_calls > 0 => binder.network_read_)
    /\ [][/\ binder.network_read_ => binder'.network_read_
          /\ DOMAIN binder.executable_network_
                 \subseteq DOMAIN binder'.executable_network_
          /\ core'.compile_model_calls # core.compile_model_calls
                 => binder.network_read_]_vars

\* The device is loaded while the other thread, which found it not loaded,
\* is about to compile.
C32_Witness ==
    \E i \in Inst :
        /\ binder.network_read_
        /\ "CPU" \in DOMAIN binder.executable_network_
        /\ inst[i].pc = "ctor_compile"

\* C33: a ReadNetwork entered with the read flag set ends the construction
\* with the internal "more than once" error without a read_model call, and
\* a LoadNetwork entered with the device loaded ends it with the internal
\* error without a compile_model call; the graph, the compiled graphs and
\* the name -> node map (the whole binder) and the engine are as before.
C33_RepeatedReadOrLoadRejected ==
    [][\A i \in Inst :
           /\ (/\ inst[i].pc = "ctor_read_guard" /\ inst'[i] # inst[i]
               /\ binder.network_read_)
                  => /\ inst'[i] = [NoInstance EXCEPT !.init_err =
                                        "INTERNAL read more than once"]
                     /\ binder' = binder /\ core' = core
           /\ (/\ inst[i].pc = "ctor_load_guard" /\ inst'[i] # inst[i]
               /\ inst[i].device_ \in DOMAIN binder.executable_network_)
                  => /\ inst'[i] = [NoInstance EXCEPT !.init_err =
                                        "INTERNAL load more than once"]
                     /\ binder' = binder /\ core' = core]_vars

\* A construction was ended by the guard of ReadNetwork: the other thread
\* read the graph between this one's NetworkNotRead() and its ReadNetwork.
C33_Witness ==
    \E i \in Inst :
        /\ inst[i].init_err = "INTERNAL read more than once"
        /\ binder.network_read_ /\ core.read_model_ok = 1

\* C34: when the model file is absent or read_model fails, the step of
\* ReadNetwork leaves the binder as it was, with the read flag unset, makes
\* no compile_model call and ends the construction with the error; while
\* the read flag is unset nothing was compiled, and a construction begun
\* then (a CPU instance) goes to the read again.
C34_FailedReadIsRetried ==
    /\ [](~binder.network_read_ => core.compile_model_calls = 0)
    /\ [][\A i \in Inst :
              /\ (/\ inst[i].pc = "ctor_read"
                  /\ inst'[i].pc # "ctor_check_loaded"
                  /\ inst'[i] # inst[i])
                     => /\ ~binder'.network_read_ /\ binder' = binder
                        /\ core'.compile_model_calls = core.compile_model_calls
                        /\ core'.read_model_ok = core.read_model_ok
                        /\ ~inst'[i].attached /\ inst'[i].pc = "idle"
                        /\ inst'[i].init_err \in
                               {"UNAVAILABLE unable to find model",
                                "INTERNAL reading network"}
              /\ (/\ inst[i].pc = "idle" /\ inst'[i].pc # "idle"
                  /\ ~binder.network_read_)
                     => inst'[i].pc = "ctor_parse"]_vars

\* A construction is at the read after an earlier one failed in read_model.
C34_Witness ==
    \E i \in Inst :
        /\ inst[i].pc = "ctor_read"
        /\ core.read_model_calls >= 1 /\ core.read_model_ok = 0
        /\ ~binder.network_read_ /\ core.compile_model_calls = 0

\* C35: a construction for an instance whose kind is not CPU ends at the
\* kind check with the invalid-argument error: it never leaves the start of
\* the constructor, attaches nothing and creates no infer request, and the
\* step leaves the binder (read flag, compiled graphs, option map, name ->
\* node map) and the engine (no read_model, no compile_model) as they were.
C35_NonCpuKindRejectedFirst ==
    /\ [](\A i \in Inst :
              inst[i].kind # "KIND_CPU"
                  => /\ inst[i].pc = "idle" /\ ~inst[i].attached
                     /\ inst[i].init_err = "INVALID_ARG kind"
                     /\ inst[i].infer_request_ = 0)
    /\ [][\A i \in Inst :
              (/\ ctor_attempts' # ctor_attempts
               /\ inst[i].pc = "idle" /\ inst'[i].kind # "KIND_CPU")
                  => binder' = binder /\ core' = core]_vars

\* A GPU instance was refused after the model was read and compiled for an
\* earlier instance, and the binder is still read and loaded.
C35_Witness ==
    \E i \in Inst :
        /\ inst[i].kind = "KIND_GPU"
        /\ inst[i].init_err = "INVALID_ARG kind"
        /\ binder.network_read_
        /\ "CPU" \in DOMAIN binder.executable_network_
        /\ core.read_model_calls = 1 /\ core.compile_model_calls = 1

\* Each of the four device options of the configuration is absent or has a
\* value its helper accepts.
AllOptionsParse ==
    \A k \in DOMAIN DeviceKeys :
        \/ config.parameters[DeviceKeys[k]] = S_empty
        \/ ParseParameterHelper(DeviceKeys[k],
                                config.parameters[DeviceKeys[k]]).err = "none"

\* C36: parsing the device options applies nothing to the engine. The step
\* of ParseParameters(device) leaves the engine and the compiled graphs as
\* they were and lets the constructor go on exactly when all four options
\* parsed; set_property and compile_model are called only in constructions
\* whose options all parsed, so with an option that does not parse the
\* engine stays unconfigured and the device not loaded.
C36_ParsingAppliesNothing ==
    /\ [](~AllOptionsParse => /\ core.properties = EmptyMap
                               /\ core.compile_model_calls = 0
                               /\ binder.executable_network_ = EmptyMap
                               /\ \A i \in Inst : ~PastParseDevice(i))
    /\ [][\A i \in Inst :
              (inst[i].pc = "ctor_parse_device" /\ inst'[i] # inst[i])
                  => /\ core' = core
                     /\ binder'.executable_network_
                            = binder.executable_network_
                     /\ IF AllOptionsParse
                        THEN inst'[i].pc = "ctor_configure"
                        ELSE /\ inst'[i].pc = "idle"
                             /\ ~inst'[i].attached
                             /\ inst'[i].init_err = "INVALID_ARG"]_vars

\* A construction failed on its second device option after the first one
\* was entered in the option map: the engine has no property set and no
\* device is loaded.
C36_Witness ==
    \E i \in Inst :
        /\ inst[i].init_err = "INVALID_ARG"
        /\ "CPU" \in DOMAIN binder.config_
        /\ binder.config_["CPU"] = Put(EmptyMap, "CPU_THREADS_NUM", <<"4">>)
        /\ core.properties = EmptyMap
        /\ binder.executable_network_ = EmptyMap

\* C37: when the gathered buffer of the input is in GPU memory, or its byte
\* length is not the one of the batched shape, SetInputTensors returns the
\* error before the engine's input tensor is fetched or written; every
\* response still held is sent with that error, Infer and the reading of the
\* outputs are not invoked, no batch statistics are reported, and the call
\* still goes through the statistics and release loop before it returns.
C37_RejectedBufferFailsCall ==
    \A i \in Inst :
        LET c == call[i]
        IN  /\ (c.at = "set_inputs" /\ ~c.all_response_failed)
                   => \A memory_type \in MemoryTypes,
                         extra \in {0, FloatBytes}, dst \in EngineTensors :
                          LET src == BatchnTensor(c, config.max_batch_size)
                              m == SetInputTensors(
                                       c, config.max_batch_size, memory_type,
                                       ByteSize(src) + extra, dst)
                          IN  (memory_type = "GPU" \/ extra # 0)
                                  => /\ m.err = IF memory_type = "GPU"
                                                THEN E_GPU ELSE E_BYTES
                                     /\ m.copied = 0 /\ m.dst = NoTensor
            /\ c.err \in {E_GPU, E_BYTES}
                   => /\ c.all_response_failed /\ c.at # "thrown"
                      /\ c.copied = 0 /\ c.dst = NoTensor
                      /\ c.infer_calls = 0 /\ c.output_reads = 0
                      /\ c.batch_stats = <<>>
                      /\ \A r \in DOMAIN c.requests :
                             /\ c.created[r] => c.sent[r] = <<c.err>>
                             /\ c.at = "returned"
                                    => Len(c.stats[r]) = 1 /\ c.released[r] = 1

\* A call of two requests was failed for a buffer in GPU memory and went on
\* to its end.
C37_Witness ==
    \E i \in Inst :
        LET c == call[i]
        IN  /\ c.at = "returned" /\ c.err = E_GPU /\ Len(c.requests) = 2
            /\ c.sent = <<<<E_GPU>>, <<E_GPU>>>>
            /\ c.released = <<1, 1>> /\ c.infer_calls = 0

\* ------------------------------------------------ the boolean parameters
\* Values a boolean parameter of the model configuration may carry.
BoolValues ==
    {S_empty, S_yes, S_YES, <<"Y", "e", "s">>, S_no, S_NO, <<"y", "e">>,
     <<"y", "e", "s", "s">>, <<"1">>, <<"t", "r", "u", "e">>}

BoolKeys ==
    <<"SKIP_OV_DYNAMIC_BATCHSIZE", "ENABLE_BATCH_PADDING", "RESHAPE_IO_LAYERS">>

\* Model configurations with one boolean parameter set, or all three.
BoolConfigs ==
    {[max_batch_size |-> MaxM, has_parameters |-> TRUE,
      parameters |-> [NoValues EXCEPT ![BoolKeys[k]] = v]] :
        k \in DOMAIN BoolKeys, v \in BoolValues}
    \cup {[max_batch_size |-> MaxM, has_parameters |-> TRUE,
           parameters |-> [NoValues EXCEPT ![BoolKeys[1]] = u,
                                           ![BoolKeys[2]] = v,
                                           ![BoolKeys[3]] = w]] :
            u \in {S_YES, S_no}, v \in {<<"Y", "e", "s">>, <<"1">>},
            w \in {S_yes, <<"y", "e", "s", "s">>}}

InitBool ==
    /\ config \in BoolConfigs
    /\ binder = NewModelState
    /\ core = NewCore
    /\ inst = [i \in Inst |-> NoInstance]
    /\ call = [i \in Inst |-> NoCall]
    /\ ctor_attempts = 0

SpecBool == InitBool /\ [][NextCtor]_vars

\* The value is "yes" in some mix of upper and lower case.
IsYes(v) ==
    /\ Len(v) = 3
    /\ v[1] \in {"y", "Y"} /\ v[2] \in {"e", "E"} /\ v[3] \in {"s", "S"}

\* The three flags of the binder, in the order of BoolKeys.
Flags(b) ==
    <<b.skip_dynamic_batchsize_, b.enable_padding_, b.reshape_io_layers_>>

\* C38: each of the three flags is true only if the value of its parameter
\* is "yes" ignoring case, and once ParseParameters() has run it is true
\* exactly then; ParseParameters() ends in no error whatever the values, and
\* no step makes a true flag false.
C38_FlagIffYes ==
    /\ [](\A k \in DOMAIN BoolKeys :
              Flags(binder)[k] => IsYes(config.parameters[BoolKeys[k]]))
    /\ [][\A i \in Inst :
              /\ (inst[i].pc = "ctor_parse" /\ inst'[i] # inst[i])
                     => /\ inst'[i].pc = "ctor_read_guard"
                        /\ inst'[i].init_err = "none"
                        /\ \A k \in DOMAIN BoolKeys :
                               Flags(binder')[k]
                                   <=> IsYes(config.parameters[BoolKeys[k]])
              /\ \A k \in DOMAIN BoolKeys :
                     Flags(binder)[k] => Flags(binder')[k]]_vars

\* The binder after parsing "YES", "Yes" and "yess": the first two flags
\* are set, the third is not.
C38_Witness ==
    /\ config.parameters["SKIP_OV_DYNAMIC_BATCHSIZE"] = S_YES
    /\ config.parameters["ENABLE_BATCH_PADDING"] = <<"Y", "e", "s">>
    /\ config.parameters["RESHAPE_IO_LAYERS"] = <<"y", "e", "s", "s">>
    /\ Flags(binder) = <<TRUE, TRUE, FALSE>>
    /\ \E i \in Inst : inst[i].pc = "ctor_read_guard"

=============================================================================
